---------------------------- MODULE Spec2Model ----------------------------
(***************************************************************************)
(* Germ selection of pyGSTi (packages/pygsti/algorithms/germselection.py): *)
(* the slack-relaxed local search optimize_integer_germs_slack, its robust *)
(* variant optimize_integer_germs_slack_multiple_gatesets, and the         *)
(* completeness test test_germ_list_infl they are compared with.           *)
(*                                                                         *)
(* A gate set enters the search only through the J^H J contribution of     *)
(* each candidate germ (twirledDerivDaggerDeriv).  Here every contribution *)
(* is a diagonal positive semidefinite matrix, written as the sequence of  *)
(* its diagonal entries, so that the weighted sum, the sorted spectrum and *)
(* the reciprocal scores are computed exactly as the code computes them.   *)
(* Scores are reciprocals of eigenvalues; they are kept as integers in     *)
(* units of 1/Scale.  1.0/0 is numpy's inf.                                *)
(***************************************************************************)
EXTENDS Integers, Sequences, FiniteSets, TLC

(***************************************************************************)
(* Bounds of the model.                                                    *)
(***************************************************************************)
\* maxIter is drawn from 0..MaxIter
MaxIter == 2

\* calls of a loader that one caller makes on one file
MaxLoads == 2
\* nGaugeParams (below) is the other bound: the gauge directions of a gate set

(***************************************************************************)
(* The gate set and the candidate germs of the scenario of the             *)
(* documentation: two elementary gates and their product.                  *)
(***************************************************************************)
gates == {"Gx", "Gy"}

germsList == << <<"Gx">>, <<"Gy">>, <<"Gx", "Gy">> >>

nGerms == Len(germsList)

numGates == Cardinality(gates)

\* gateset.num_gauge_params() of the gate set without SPAM
nGaugeParams == 1

\* number of gate set parameters (columns of a twirled derivative)
nParams == nGaugeParams + 2

\* forceSingletonsScore (default 1e100): above every finite score, below inf
forceSingletonsScore == 1000000

\* threshold (default 1e6), in units of 1/Scale
threshold == 1000000

\* numpy's inf: above every finite score and every finite sum of scores
Inf == forceSingletonsScore * 1000

\* the values a diagonal entry of a per-germ contribution takes
EntryValues == {0, 1}

\* tol = 1e-6 of test_germ_list_finitel, in units of 1/TolUnit
tol == 1
TolUnit == 1000000

\* the dimension of the matrix twirled with respect to, its eigenvalues and
\* the tolerances
dim == 3
Eigenvalues == {0, 1, 2}
Tolerances == {0, 1}

\* the gate dimensions and the lengths L the finite-L test is called with
GateDims == {1, 2}
Lengths == {1, 2}

MaxEigenvalue ==
    nGerms * (CHOOSE x \in EntryValues : \A y \in EntryValues : y <= x)

RECURSIVE Factorial(_)
Factorial(k) == IF k <= 1 THEN 1 ELSE k * Factorial(k - 1)

\* the unit of the scores: the reciprocal of every eigenvalue that can occur,
\* also of one weighted by 1/n, is a whole number of 1/Scale
Scale == Factorial(MaxEigenvalue)

(***************************************************************************)
(* Float arithmetic on scores, with inf.                                   *)
(***************************************************************************)
\* 1.0/x for an eigenvalue x >= 0
Recip(x) == IF x = 0 THEN Inf ELSE Scale \div x

FAdd(a, b) == IF a >= Inf \/ b >= Inf THEN Inf ELSE a + b

\* score * slackFrac
FMul(a, f) == IF a >= Inf THEN (IF f > 0 THEN Inf ELSE 0 - Inf) ELSE a * f

Max2(a, b) == IF a >= b THEN a ELSE b

RECURSIVE SeqSum(_)
SeqSum(s) == IF s = <<>> THEN 0 ELSE FAdd(Head(s), SeqSum(Tail(s)))

RECURSIVE SeqMax(_)
SeqMax(s) == IF Len(s) = 1 THEN s[1] ELSE Max2(s[1], SeqMax(Tail(s)))

RECURSIVE SeqMin(_)
SeqMin(s) == IF Len(s) = 1 THEN s[1]
             ELSE LET r == SeqMin(Tail(s)) IN IF s[1] <= r THEN s[1] ELSE r

\* sum(weights), _np.count_nonzero
RECURSIVE CountOnes(_)
CountOnes(s) == IF s = <<>> THEN 0 ELSE (IF Head(s) # 0 THEN 1 ELSE 0) + CountOnes(Tail(s))

Abs(x) == IF x < 0 THEN 0 - x ELSE x

(***************************************************************************)
(* Weight vectors.                                                         *)
(***************************************************************************)
WeightVectors == [1..nGerms -> {0, 1}]

AllOnes == [i \in 1..nGerms |-> 1]

\* initialWeights = None
None == <<>>

\* "v = boolVec" for "v = boolVec.copy()": every toggle stays in the one array
get_neighbors_NoCopy(boolVec, i) ==
    [j \in 1..nGerms |-> IF j <= i THEN (boolVec[j] + 1) % 2 ELSE boolVec[j]]

\* the i-th vector yielded by get_neighbors(boolVec)
get_neighbors(boolVec, i) == [boolVec EXCEPT ![i] = (boolVec[i] + 1) % 2]

(***************************************************************************)
(* A gate set, seen through the J^H J contribution of every germ: the      *)
(* diagonal of a positive semidefinite matrix.  The first nGaugeParams     *)
(* directions are gauge directions, which no germ amplifies.               *)
(***************************************************************************)
Contributions ==
    { d \in [1..nParams -> EntryValues] :
          /\ \A p \in 1..nGaugeParams : d[p] = 0
          /\ \E p \in 1..nParams : d[p] # 0 }

GateSets == [1..nGerms -> Contributions]

\* _np.einsum('i,ijk', wts, twirledDerivDaggerDeriv) with integer weights
combinedTDDD(wts, tddd) ==
    [p \in 1..nParams |->
        SeqSum([i \in 1..nGerms |-> wts[i] * tddd[i][p]])]

\* _np.sort(_np.real(_np.linalg.eigvalsh(M))) of a diagonal matrix
sortedEigenvals(M) == SortSeq(M, LAMBDA a, b : a < b)

\* sortedEigenvals[nGaugeParams:]
NonGauge(ev) == SubSeq(ev, nGaugeParams + 1, Len(ev))

\* list_score of the robust optimizer (611-616)
list_score(scoreFunc, input_array) ==
    IF scoreFunc = "all"
    THEN SeqSum([j \in 1..Len(input_array) |-> Recip(Abs(input_array[j]))])
    ELSE Recip(SeqMin([j \in 1..Len(input_array) |-> Abs(input_array[j])]))


(***************************************************************************)
(* The state of one call.                                                  *)
(***************************************************************************)
VARIABLES
    variant,          \* "single":  optimize_integer_germs_slack,
                      \* "multi":   optimize_integer_germs_slack_multiple_gatesets,
                      \* "infl":    test_germ_list_infl,
                      \* "finitel": test_germ_list_finitel,
                      \* "twirl":   _SuperOpForPerfectTwirl,
                      \* "loadDataset", "loadMultiDataset"
    gatesetList,      \* the gate sets scored, each seen through its contributions
    initialWeights,   \* None or a weight vector
    maxIter,
    fixedSlack,       \* 0 is False; in units of 1/Scale
    slackFrac,        \* 0 is False
    forceSingletons,
    scoreFunc,
    numCopies,        \* None or <<k>>
    pc,               \* "call", "loop", "relax", "done"
    outcome,          \* "running", "returned", "None", "ValueError",
                      \* "TypeError", "AssertionError"; of a test "True",
                      \* "False", "NameError"; of the twirl "SuperOp"; of a
                      \* loader "DataSet", "MultiDataSet", "None", "raised"
    tested,           \* the results of the calls of test_germ_list_infl made
    exit,             \* how the loop ended: "", "stationary", "maxiter"
    twirledDerivDaggerDerivList,
    scoreD,
    evals,            \* how often compute_score ran for each key
    weights,
    score,
    L1,
    lessWeightOnly,
    iIter,
    goodGermsList,
    trail,            \* one record for every iteration that moved: what was
                      \* held when it started, and the kind of its move
    prev,             \* weights, score, L1, lessWeightOnly at the start of the
                      \* iteration begun last
    moveKind,         \* what that iteration did: "", "normal", "pending",
                      \* "relaxed", "none"
    models,           \* the GateSet objects there are: models[id] holds the
                      \* prep and effect labels of object id; the caller's
                      \* come first
    gateset0,         \* the object nGaugeParams and numGates are taken from
                      \* (gateset in the single-model optimizer and in the
                      \* tests), 0 before it is made
    jacobians,        \* the calls of bulk_twirled_deriv and bulk_dproduct made
    germsToTest,      \* the germs of germsList a test is given, as marks
    L,
    gate_dim,
    wrtEvals,         \* the eigenvalues of the matrix twirled with respect to
    eps,
    SuperOp,          \* the superoperator, seen in the eigenbasis of wrt
    filename,         \* what the file is: "saved", "text", "unreadable"
    cache,
    cacheFile,        \* "absent", "older", "same", "newer", "corrupt"
    calls             \* one record for each call of a loader made so far

vars == << variant, gatesetList, initialWeights, maxIter, fixedSlack, slackFrac,
           forceSingletons, scoreFunc, numCopies, pc, outcome, tested, exit,
           twirledDerivDaggerDerivList, scoreD, evals, weights, score, L1,
           lessWeightOnly, iIter, goodGermsList, prev, trail, moveKind,
           models,
           gateset0, jacobians, germsToTest, L, gate_dim, wrtEvals, eps, SuperOp,
           filename, cache, cacheFile, calls >>

\* the arguments of the call that no step changes
inputs == << variant, initialWeights, maxIter, fixedSlack, slackFrac,
             forceSingletons, scoreFunc, numCopies >>

\* what belongs to the tests, the twirl and the loaders
elsewhere == << germsToTest, L, gate_dim, wrtEvals, eps, SuperOp, filename,
               cache, cacheFile, calls >>

\* the objects and the Jacobians of a call
heap == << models, gateset0, jacobians >>

\* a gate set as the caller hands it over, and one with its SPAM removed
WithSPAM == [preps |-> {"rho0"}, effects |-> {"E0"}]
NoSPAM == [preps |-> {}, effects |-> {}]

\* no copy: the name keeps naming the caller's object
Copied_Alias(ms, id) == [models |-> ms, id |-> id]

\* lines 197, 283, 395, 647: "gateset = gateset.copy()", a new object with
\* the content of object id
Copied(ms, id) == [models |-> Append(ms, ms[id]), id |-> Len(ms) + 1]

\* lines 395-397 (197-199, 283-285, 647-649): the copy, then every prep and
\* every effect deleted from it
StripCopy(ms, id) ==
    LET c == Copied(ms, id)
    IN  [models |-> [c.models EXCEPT ![c.id] = NoSPAM], id |-> c.id]

\* one call of bulk_twirled_deriv (bulk_dproduct in the finite-L test) on
\* object id, for gate set number num
Jacobian(id, use, num) == [gateset |-> id, use |-> use, num |-> num]

\* scoreD[key] = value
Put(d, key, value) ==
    [k \in DOMAIN d \cup {key} |-> IF k = key THEN value ELSE d[k]]

Bump(e, key) ==
    [k \in DOMAIN e \cup {key} |-> IF k = key /\ k \in DOMAIN e THEN e[k] + 1
                                   ELSE IF k = key THEN 1 ELSE e[k]]

\* goodGermsList: the germs of germsList whose weight is 1
RECURSIVE SelectGerms(_, _)
SelectGerms(wts, index) ==
    IF index > nGerms THEN <<>>
    ELSE (IF wts[index] = 1 THEN <<germsList[index]>> ELSE <<>>)
         \o SelectGerms(wts, index + 1)

\* (fixedSlack and slackFrac) or (not fixedSlack and not slackFrac)
BadSlackArgs ==
    \/ (fixedSlack # 0 /\ slackFrac # 0)
    \/ (fixedSlack = 0 /\ slackFrac = 0)

\* the slack with the two arguments taken for each other
SlackOf_Swapped(s) == IF slackFrac = 0 THEN FMul(s, slackFrac) ELSE fixedSlack

\* slack = score*slackFrac if fixedSlack == False else fixedSlack
SlackOf(s) == IF fixedSlack = 0 THEN FMul(s, slackFrac) ELSE fixedSlack

\* the score raised without the slack
RaisedScore_NoSlack(s) == s

\* score += slack
RaisedScore(s) == FAdd(s, SlackOf(s))

\* the loop runs once more than maxIter allows
MoreIterations_Inclusive == iIter <= maxIter

\* for iIter in xrange(maxIter): another iteration starts
MoreIterations == iIter < maxIter

\* weights = initialWeights as 0/1, or all ones
StartWeights ==
    IF initialWeights # None THEN initialWeights ELSE AllOnes

(***************************************************************************)
(* optimize_integer_germs_slack                                            *)
(***************************************************************************)
\* the score compute_score(wts) assigns, twirledDerivDaggerDeriv being the
\* contributions built at line 420
compute_score(wts, twirledDerivDaggerDeriv) ==
    IF forceSingletons /\ CountOnes(SubSeq(wts, 1, numGates)) # numGates
    THEN forceSingletonsScore
    ELSE LET combined == combinedTDDD(wts, twirledDerivDaggerDeriv)
             ev == sortedEigenvals(combined)
         IN  Recip(ev[nGaugeParams + 1])

\* the membership test never finds a key
Cached_Never(key, scoreD_keys) == FALSE

\* lines 461 and 726: "tuple(neighbor) not in scoreD_keys" is False
Cached(key, scoreD_keys) == key \in scoreD_keys

\* lines 461-466: the score of a neighbor, read from scoreD when its key was
\* among scoreD_keys, the keys listed before the scan, and computed otherwise
NeighborScore(neighbor, scoreD_keys, d, twirledDerivDaggerDeriv) ==
    IF Cached(neighbor, scoreD_keys) THEN d[neighbor]
    ELSE compute_score(neighbor, twirledDerivDaggerDeriv)

\* the keys compute_score is called with during a scan of the neighbors of boolVec
Computed(boolVec, scoreD_keys) ==
    { k \in { get_neighbors(boolVec, i) : i \in 1..nGerms } :
          ~Cached(k, scoreD_keys) }

\* line 432, for every call of compute_score of a scan: scoreD after the scan
ScoreDAfterScan(d, boolVec, scoreD_keys, twirledDerivDaggerDeriv) ==
    [k \in DOMAIN d \cup Computed(boolVec, scoreD_keys) |->
        IF k \in Computed(boolVec, scoreD_keys)
        THEN compute_score(k, twirledDerivDaggerDeriv)
        ELSE d[k]]

\* the number of calls of compute_score for each key after a scan
EvalsAfterScan(e, boolVec, scoreD_keys) ==
    [k \in DOMAIN e \cup Computed(boolVec, scoreD_keys) |->
        (IF k \in DOMAIN e THEN e[k] ELSE 0)
        + Cardinality({ i \in 1..nGerms : get_neighbors(boolVec, i) = k
                                          /\ ~Cached(k, scoreD_keys) })]

\* the normal scan without the test of lessWeightOnly
RECURSIVE Scan_AnyWeight(_, _, _, _, _, _)
Scan_AnyWeight(st, neighborNum, boolVec, d, scoreD_keys, lwo) ==
    IF neighborNum > nGerms THEN st
    ELSE LET neighbor == get_neighbors(boolVec, neighborNum)
             neighborL1 == CountOnes(neighbor)
             neighborScore == NeighborScore(neighbor, scoreD_keys, d,
                                            twirledDerivDaggerDerivList[1])
         IN  IF neighborScore <= st.score
             THEN Scan_AnyWeight([weights |-> neighbor, score |-> neighborScore,
                                  L1 |-> neighborL1, found |-> TRUE],
                                 neighborNum + 1, boolVec, d, scoreD_keys, lwo)
             ELSE Scan_AnyWeight(st, neighborNum + 1, boolVec, d, scoreD_keys,
                                 lwo)

\* the normal scan accepting only a neighbor whose score is strictly lower
RECURSIVE Scan_Strict(_, _, _, _, _, _)
Scan_Strict(st, neighborNum, boolVec, d, scoreD_keys, lwo) ==
    IF neighborNum > nGerms THEN st
    ELSE LET neighbor == get_neighbors(boolVec, neighborNum)
             neighborL1 == CountOnes(neighbor)
             neighborScore == NeighborScore(neighbor, scoreD_keys, d,
                                            twirledDerivDaggerDerivList[1])
         IN  IF neighborScore < st.score
                /\ (neighborL1 < st.L1 \/ lwo = FALSE)
             THEN Scan_Strict([weights |-> neighbor, score |-> neighborScore,
                               L1 |-> neighborL1, found |-> TRUE],
                              neighborNum + 1, boolVec, d, scoreD_keys, lwo)
             ELSE Scan_Strict(st, neighborNum + 1, boolVec, d, scoreD_keys, lwo)

\* lines 457-472, the normal scan from its neighborNum-th neighbor on: st is
\* what the loop holds (weights, score, L1, bFoundBetterNeighbor), boolVec the
\* vector get_neighbors was called with, d and scoreD_keys scoreD and its keys
\* before the scan, lwo is lessWeightOnly
RECURSIVE Scan(_, _, _, _, _, _)
Scan(st, neighborNum, boolVec, d, scoreD_keys, lwo) ==
    IF neighborNum > nGerms THEN st
    ELSE LET neighbor == get_neighbors(boolVec, neighborNum)
             neighborL1 == CountOnes(neighbor)
             neighborScore == NeighborScore(neighbor, scoreD_keys, d,
                                            twirledDerivDaggerDerivList[1])
         IN  IF neighborScore <= st.score
                /\ (neighborL1 < st.L1 \/ lwo = FALSE)
             THEN Scan([weights |-> neighbor, score |-> neighborScore,
                        L1 |-> neighborL1, found |-> TRUE],
                       neighborNum + 1, boolVec, d, scoreD_keys, lwo)
             ELSE Scan(st, neighborNum + 1, boolVec, d, scoreD_keys, lwo)

\* the rescan accepting a neighbor whose score is the raised score itself
RECURSIVE Rescan_Inclusive(_, _, _)
Rescan_Inclusive(st, neighborNum, boolVec) ==
    IF neighborNum > nGerms THEN st
    ELSE LET neighbor == get_neighbors(boolVec, neighborNum)
         IN  IF CountOnes(neighbor) < st.L1 /\ scoreD[neighbor] <= st.score
                /\ ~st.found
             THEN Rescan_Inclusive(
                      [weights |-> neighbor, score |-> scoreD[neighbor],
                       L1 |-> CountOnes(neighbor), found |-> TRUE],
                      neighborNum + 1, boolVec)
             ELSE Rescan_Inclusive(st, neighborNum + 1, boolVec)

\* the rescan moving without taking the score of the neighbor: the score
\* raised by the slack stays
RECURSIVE Rescan_KeepsRaisedScore(_, _, _)
Rescan_KeepsRaisedScore(st, neighborNum, boolVec) ==
    IF neighborNum > nGerms THEN st
    ELSE LET neighbor == get_neighbors(boolVec, neighborNum)
         IN  IF CountOnes(neighbor) < st.L1 /\ scoreD[neighbor] < st.score
                /\ ~st.found
             THEN Rescan_KeepsRaisedScore(
                      [weights |-> neighbor, score |-> st.score,
                       L1 |-> CountOnes(neighbor), found |-> TRUE],
                      neighborNum + 1, boolVec)
             ELSE Rescan_KeepsRaisedScore(st, neighborNum + 1, boolVec)

\* the rescan with bFoundBetterNeighbor = True outside the if
RECURSIVE Rescan_FoundOutsideIf(_, _, _)
Rescan_FoundOutsideIf(st, neighborNum, boolVec) ==
    IF neighborNum > nGerms THEN [st EXCEPT !.found = TRUE]
    ELSE LET neighbor == get_neighbors(boolVec, neighborNum)
         IN  IF CountOnes(neighbor) < st.L1 /\ scoreD[neighbor] < st.score
             THEN Rescan_FoundOutsideIf(
                      [weights |-> neighbor, score |-> scoreD[neighbor],
                       L1 |-> CountOnes(neighbor), found |-> TRUE],
                      neighborNum + 1, boolVec)
             ELSE Rescan_FoundOutsideIf(st, neighborNum + 1, boolVec)

\* lines 488-492, the rescan after the score was raised by the slack
RECURSIVE Rescan(_, _, _)
Rescan(st, neighborNum, boolVec) ==
    IF neighborNum > nGerms THEN st
    ELSE LET neighbor == get_neighbors(boolVec, neighborNum)
         IN  IF CountOnes(neighbor) < st.L1 /\ scoreD[neighbor] < st.score
             THEN Rescan([weights |-> neighbor, score |-> scoreD[neighbor],
                          L1 |-> CountOnes(neighbor), found |-> TRUE],
                         neighborNum + 1, boolVec)
             ELSE Rescan(st, neighborNum + 1, boolVec)

Held == [weights |-> weights, score |-> score, L1 |-> L1,
         lessWeightOnly |-> lessWeightOnly]

\* an iteration that started holding h and moved, in its normal scan or in
\* its relaxed rescan
Moved(h, kind) == [start |-> h, kind |-> kind]

\* lines 395-448: the arguments are checked, the contributions built, the
\* first vector scored
Setup ==
    /\ pc = "call"
    /\ variant = "single"
    /\ LET c == StripCopy(models, 1)
       IN  models' = c.models /\ gateset0' = c.id
    /\ IF BadSlackArgs
       THEN /\ outcome' = "ValueError"
            /\ pc' = "done"
            /\ UNCHANGED << twirledDerivDaggerDerivList, scoreD, evals, weights,
                            score, L1, lessWeightOnly, iIter, jacobians >>
       ELSE /\ twirledDerivDaggerDerivList' = gatesetList
            /\ jacobians' = << Jacobian(gateset0', "search", 1) >>
            /\ weights' = StartWeights
            /\ lessWeightOnly' = (initialWeights = None)
            /\ score' = compute_score(weights', gatesetList[1])
            /\ scoreD' = Put(<<>>, weights', score')
            /\ evals' = Bump(<<>>, weights')
            /\ L1' = CountOnes(weights')
            /\ iIter' = 0
            /\ pc' = "loop"
            /\ UNCHANGED outcome
    /\ UNCHANGED << elsewhere, inputs, gatesetList, tested, exit, goodGermsList,
                    prev, trail, moveKind >>

\* lines 451-472: one pass over the neighbors of the vector held
NormalScan ==
    /\ pc = "loop"
    /\ variant = "single"
    /\ MoreIterations
    /\ LET scoreD_keys == DOMAIN scoreD
           st == Scan([weights |-> weights, score |-> score, L1 |-> L1,
                       found |-> FALSE],
                      1, weights, scoreD, scoreD_keys, lessWeightOnly)
       IN  /\ weights' = st.weights
           /\ score' = st.score
           /\ L1' = st.L1
           /\ scoreD' = ScoreDAfterScan(scoreD, weights, scoreD_keys,
                                        twirledDerivDaggerDerivList[1])
           /\ evals' = EvalsAfterScan(evals, weights, scoreD_keys)
           /\ IF st.found
              THEN pc' = "loop" /\ iIter' = iIter + 1 /\ moveKind' = "normal"
              ELSE pc' = "relax" /\ iIter' = iIter /\ moveKind' = "pending"
    /\ prev' = Held
    /\ trail' = IF weights' # weights THEN Append(trail, Moved(Held, "normal"))
                ELSE trail
    /\ UNCHANGED << elsewhere, heap, inputs, gatesetList, tested, outcome, exit,
                    twirledDerivDaggerDerivList, lessWeightOnly, goodGermsList >>

\* lines 475-496: no neighbor was accepted; the score is raised by the slack
\* and the neighbors with fewer germs are looked at again
Relax ==
    /\ pc = "relax"
    /\ variant = "single"
    /\ lessWeightOnly' = TRUE
    /\ LET slack == SlackOf(score)
           st == Rescan([weights |-> weights, score |-> RaisedScore(score),
                         L1 |-> L1, found |-> FALSE], 1, weights)
       IN  IF ~(slack > 0)
           THEN /\ outcome' = "AssertionError"
                /\ pc' = "done"
                /\ UNCHANGED << weights, score, L1, iIter, exit, goodGermsList,
                                moveKind, trail >>
           ELSE /\ weights' = st.weights
                /\ score' = st.score
                /\ L1' = st.L1
                /\ trail' = IF weights' # weights
                            THEN Append(trail, Moved(Held, "relaxed"))
                            ELSE trail
                /\ IF st.found
                   THEN /\ pc' = "loop"
                        /\ iIter' = iIter + 1
                        /\ moveKind' = "relaxed"
                        /\ UNCHANGED << outcome, exit, goodGermsList >>
                   ELSE /\ pc' = "done"
                        /\ outcome' = "returned"
                        /\ exit' = "stationary"
                        /\ goodGermsList' = SelectGerms(weights', 1)
                        /\ moveKind' = "none"
                        /\ UNCHANGED iIter
    /\ UNCHANGED << elsewhere, heap, inputs, gatesetList, tested, twirledDerivDaggerDerivList,
                    scoreD, evals, prev >>

\* lines 499-514: the for loop ran maxIter times
HitMaxIter ==
    /\ pc = "loop"
    /\ variant = "single"
    /\ ~MoreIterations
    /\ pc' = "done"
    /\ outcome' = "returned"
    /\ exit' = "maxiter"
    /\ goodGermsList' = SelectGerms(weights, 1)
    /\ UNCHANGED << elsewhere, heap, inputs, gatesetList, tested, twirledDerivDaggerDerivList,
                    scoreD, evals, weights, score, L1, lessWeightOnly, iIter,
                    prev, trail, moveKind >>


(***************************************************************************)
(* test_germ_list_infl                                                     *)
(***************************************************************************)
\* 1./x for an eigenvalue x of the sum weighted by 1.0/nGermsToTest
RecipOver(x, nGermsToTest) ==
    IF x = 0 THEN Inf ELSE (nGermsToTest * Scale) \div x

\* bSuccess of test_germ_list_infl(gateset, germsToTest, scoreFunc, threshold),
\* germsToTest being the germs of germsList that sel marks, the weights left
\* at their default 1.0/len(germsToTest).  An empty germsToTest divides by
\* zero at line 299: no success is reported.
test_germ_list_infl(gateset, sel, sf) ==
    LET n == CountOnes(sel)
        combined == combinedTDDD(sel, gateset)
        ev == NonGauge(sortedEigenvals(combined))
        listed == IF sf = "all"
                  THEN SeqSum([j \in 1..Len(ev) |-> RecipOver(ev[j], n)])
                  ELSE RecipOver(SeqMin(ev), n)
    IN  n > 0 /\ listed < threshold

(***************************************************************************)
(* optimize_integer_germs_slack_multiple_gatesets                          *)
(***************************************************************************)
\* the score compute_score(wts, gateset_num) assigns
compute_score_multi(wts, gateset_num, tdddList) ==
    IF forceSingletons /\ CountOnes(SubSeq(wts, 1, numGates)) # numGates
    THEN forceSingletonsScore
    ELSE LET combined == combinedTDDD(wts, tdddList[gateset_num])
             ev == sortedEigenvals(combined)
         IN  list_score(scoreFunc, NonGauge(ev))

\* a key that leaves the gate set out
Key_ModelBlind(gateset_num, wts) == << 1, wts >>

\* the key of scoreD
Key(gateset_num, wts) == << gateset_num, wts >>

\* lines 724-731: neighborScoreList, the score of a neighbor on every gate
\* set, read from scoreD when its key was among scoreD_keys, the keys listed
\* before the scan, and computed otherwise; tdddList is
\* twirledDerivDaggerDerivList
NeighborScoreList(neighbor, scoreD_keys, d, tdddList) ==
    [gateset_num \in 1..Len(tdddList) |->
        IF Cached(Key(gateset_num, neighbor), scoreD_keys)
        THEN d[Key(gateset_num, neighbor)]
        ELSE compute_score_multi(neighbor, gateset_num, tdddList)]

\* the keys compute_score is called with during a scan of the neighbors of boolVec
ComputedMulti(boolVec, scoreD_keys, tdddList) ==
    { k \in { Key(gateset_num, get_neighbors(boolVec, i)) :
                  gateset_num \in 1..Len(tdddList), i \in 1..nGerms } :
          ~Cached(k, scoreD_keys) }

\* line 692, for every call of compute_score of a scan: scoreD after the scan
ScoreDAfterScanMulti(d, boolVec, scoreD_keys, tdddList) ==
    [k \in DOMAIN d \cup ComputedMulti(boolVec, scoreD_keys, tdddList) |->
        IF k \in ComputedMulti(boolVec, scoreD_keys, tdddList)
        THEN compute_score_multi(k[2], k[1], tdddList)
        ELSE d[k]]

\* the number of calls of compute_score for each key after a scan
EvalsAfterScanMulti(e, boolVec, scoreD_keys, tdddList) ==
    [k \in DOMAIN e \cup ComputedMulti(boolVec, scoreD_keys, tdddList) |->
        (IF k \in DOMAIN e THEN e[k] ELSE 0)
        + Cardinality({ c \in (1..Len(tdddList)) \X (1..nGerms) :
                            Key(c[1], get_neighbors(boolVec, c[2])) = k
                            /\ ~Cached(k, scoreD_keys) })]

\* lines 720-741, the normal scan from its neighborNum-th neighbor on
RECURSIVE ScanMulti(_, _, _, _, _, _)
ScanMulti(st, neighborNum, boolVec, d, scoreD_keys, lwo) ==
    IF neighborNum > nGerms THEN st
    ELSE LET neighbor == get_neighbors(boolVec, neighborNum)
             neighborL1 == CountOnes(neighbor)
             neighborScore ==
                 SeqMax(NeighborScoreList(neighbor, scoreD_keys, d,
                                          twirledDerivDaggerDerivList))
         IN  IF neighborScore <= st.score
                /\ (neighborL1 < st.L1 \/ lwo = FALSE)
             THEN ScanMulti([weights |-> neighbor, score |-> neighborScore,
                             L1 |-> neighborL1, found |-> TRUE],
                            neighborNum + 1, boolVec, d, scoreD_keys, lwo)
             ELSE ScanMulti(st, neighborNum + 1, boolVec, d, scoreD_keys, lwo)

\* lines 757-763, the rescan after the score was raised by the slack
RECURSIVE RescanMulti(_, _, _)
RescanMulti(st, neighborNum, boolVec) ==
    IF neighborNum > nGerms THEN st
    ELSE LET neighbor == get_neighbors(boolVec, neighborNum)
             scoreList == [gateset_num \in 1..Len(gatesetList) |->
                               scoreD[Key(gateset_num, neighbor)]]
             maxScore == SeqMax(scoreList)
         IN  IF CountOnes(neighbor) < st.L1 /\ maxScore < st.score
             THEN RescanMulti([weights |-> neighbor, score |-> maxScore,
                               L1 |-> CountOnes(neighbor), found |-> TRUE],
                              neighborNum + 1, boolVec)
             ELSE RescanMulti(st, neighborNum + 1, boolVec)

\* gateset.randomize_with_unitary(randomizationStrength, seed): a gate set
\* whose contributions the seed decides
Randomized(n) ==
    IF n = 1 THEN { <<g>> : g \in GateSets }
    ELSE { pair \in { <<g, [g EXCEPT ![nGerms] = c]>> :
                           g \in GateSets, c \in Contributions } :
               pair[1] # pair[2] }

\* the full germ list tested on the first gate set only
InitialTests_FirstOnly(gsList, gatesetnum) ==
    << test_germ_list_infl(gsList[1], AllOnes, scoreFunc) >>

\* lines 633-641: the results of the tests of the full germ list on the gate
\* sets of gsList, up to the first one that fails
RECURSIVE InitialTests(_, _)
InitialTests(gsList, gatesetnum) ==
    IF gatesetnum > Len(gsList) THEN <<>>
    ELSE LET initial_test == test_germ_list_infl(gsList[gatesetnum], AllOnes,
                                                 scoreFunc)
         IN  IF ~initial_test THEN <<FALSE>>
             ELSE <<TRUE>> \o InitialTests(gsList, gatesetnum + 1)

\* the failure of a test is reported and the search goes on
AbortSearch_Never(t) == FALSE

\* lines 638-641: "if not initial_test: ... return None", t being the results
\* of the tests made
AbortSearch(t) == FALSE \in { t[k] : k \in 1..Len(t) }

\* lines 605-618: the error the first checks raise, "" if none
ArgumentError ==
    IF Len(gatesetList) > 1 /\ numCopies # None THEN "ValueError"
    ELSE IF scoreFunc \notin {"all", "worst"} THEN "ValueError"
    ELSE ""

\* lines 620-631, randomize being True: the lists newgatesetList can be;
\* xrange(None) is a TypeError, which leaves no list
NewGateSetLists ==
    IF Len(gatesetList) > 1 THEN Randomized(Len(gatesetList))
    ELSE IF numCopies = None THEN {}
    ELSE Randomized(numCopies[1])

\* lines 620-631: the objects after newgatesetList was filled with n
\* randomized gate sets, each a new object with the SPAM of the one it was
\* made from
RandomizedCopies(ms, n) ==
    ms \o [k \in 1..n |-> ms[IF Len(ms) > 1 THEN k ELSE 1]]

\* lines 633-637 with 283-291: the objects and Jacobians after the tests of
\* gate sets k..t of the list whose objects are ids
RECURSIVE HeapAfterTests(_, _, _, _)
HeapAfterTests(h, ids, k, t) ==
    IF k > t THEN h
    ELSE LET c == StripCopy(h.models, ids[k])
         IN  HeapAfterTests(
                 [models |-> c.models,
                  jacobians |-> Append(h.jacobians, Jacobian(c.id, "test", k))],
                 ids, k + 1, t)

\* line 677 takes every gate set of the first n Jacobians made
SearchJacobians_FirstOnly(ids) == << Jacobian(ids[1], "search", 1) >>

\* lines 676-678: one call of bulk_twirled_deriv for every gate set of
\* gatesetList, whose objects are ids
SearchJacobians(ids) == [k \in 1..Len(ids) |-> Jacobian(ids[k], "search", k)]

\* what the call leaves untouched when it ends before the search is set up
NoSearchState ==
    UNCHANGED << twirledDerivDaggerDerivList, scoreD, evals, weights, score, L1,
                 lessWeightOnly, iIter >>

\* lines 605-711: the arguments are checked, the gate sets replaced by
\* randomized copies, the full germ list tested on each of them; then the
\* slack arguments are checked, the contributions built and the first vector
\* scored on every gate set
SetupMulti ==
    /\ pc = "call"
    /\ variant = "multi"
    /\ IF ArgumentError # ""
       THEN /\ outcome' = ArgumentError
            /\ pc' = "done"
            /\ UNCHANGED << gatesetList, tested, heap >>
            /\ NoSearchState
       ELSE IF NewGateSetLists = {}
       THEN /\ outcome' = "TypeError"
            /\ pc' = "done"
            /\ UNCHANGED << gatesetList, tested, heap >>
            /\ NoSearchState
       ELSE /\ gatesetList' \in NewGateSetLists
            /\ tested' = InitialTests(gatesetList', 1)
            /\ LET n == Len(gatesetList')
                   ids == [k \in 1..n |-> Len(models) + k]
                   h == HeapAfterTests(
                            [models |-> RandomizedCopies(models, n),
                             jacobians |-> <<>>],
                            ids, 1, Len(tested'))
                   c == StripCopy(h.models, ids[1])
               IN  IF AbortSearch(tested')
                   THEN /\ models' = h.models
                        /\ gateset0' = 0
                        /\ jacobians' = h.jacobians
                   ELSE /\ models' = c.models
                        /\ gateset0' = c.id
                        /\ jacobians' =
                               IF BadSlackArgs THEN h.jacobians
                               ELSE h.jacobians \o SearchJacobians(ids)
            /\ IF AbortSearch(tested')
               THEN outcome' = "None" /\ pc' = "done" /\ NoSearchState
               ELSE IF BadSlackArgs
               THEN outcome' = "ValueError" /\ pc' = "done" /\ NoSearchState
               ELSE /\ twirledDerivDaggerDerivList' = gatesetList'
                    /\ weights' = StartWeights
                    /\ lessWeightOnly' = FALSE
                    /\ LET scoreList ==
                               [gateset_num \in 1..Len(gatesetList') |->
                                   compute_score_multi(weights', gateset_num,
                                                       gatesetList')]
                       IN  /\ score' = SeqMax(scoreList)
                           /\ scoreD' =
                                  [k \in { Key(gateset_num, weights') :
                                               gateset_num \in 1..Len(gatesetList') }
                                      |-> scoreList[k[1]]]
                           /\ evals' = [k \in DOMAIN scoreD' |-> 1]
                    /\ L1' = CountOnes(weights')
                    /\ iIter' = 0
                    /\ pc' = "loop"
                    /\ UNCHANGED outcome
    /\ UNCHANGED << elsewhere, inputs, exit, goodGermsList, prev, trail,
                    moveKind >>

\* lines 714-741: one pass over the neighbors of the vector held
NormalScanMulti ==
    /\ pc = "loop"
    /\ variant = "multi"
    /\ MoreIterations
    /\ LET scoreD_keys == DOMAIN scoreD
           st == ScanMulti([weights |-> weights, score |-> score, L1 |-> L1,
                            found |-> FALSE],
                           1, weights, scoreD, scoreD_keys, lessWeightOnly)
       IN  /\ weights' = st.weights
           /\ score' = st.score
           /\ L1' = st.L1
           /\ scoreD' = ScoreDAfterScanMulti(scoreD, weights, scoreD_keys,
                                             twirledDerivDaggerDerivList)
           /\ evals' = EvalsAfterScanMulti(evals, weights, scoreD_keys,
                                           twirledDerivDaggerDerivList)
           /\ IF st.found
              THEN pc' = "loop" /\ iIter' = iIter + 1 /\ moveKind' = "normal"
              ELSE pc' = "relax" /\ iIter' = iIter /\ moveKind' = "pending"
    /\ prev' = Held
    /\ trail' = IF weights' # weights THEN Append(trail, Moved(Held, "normal"))
                ELSE trail
    /\ UNCHANGED << elsewhere, heap, inputs, gatesetList, tested, outcome, exit,
                    twirledDerivDaggerDerivList, lessWeightOnly, goodGermsList >>

\* lines 743-767: no neighbor was accepted; the score is raised by the slack
\* and the neighbors with fewer germs are looked at again
RelaxMulti ==
    /\ pc = "relax"
    /\ variant = "multi"
    /\ lessWeightOnly' = TRUE
    /\ LET slack == SlackOf(score)
           st == RescanMulti([weights |-> weights, score |-> RaisedScore(score),
                              L1 |-> L1, found |-> FALSE], 1, weights)
       IN  IF ~(slack > 0)
           THEN /\ outcome' = "AssertionError"
                /\ pc' = "done"
                /\ UNCHANGED << weights, score, L1, iIter, exit, goodGermsList,
                                moveKind, trail >>
           ELSE /\ weights' = st.weights
                /\ score' = st.score
                /\ L1' = st.L1
                /\ trail' = IF weights' # weights
                            THEN Append(trail, Moved(Held, "relaxed"))
                            ELSE trail
                /\ IF st.found
                   THEN /\ pc' = "loop"
                        /\ iIter' = iIter + 1
                        /\ moveKind' = "relaxed"
                        /\ UNCHANGED << outcome, exit, goodGermsList >>
                   ELSE /\ pc' = "done"
                        /\ outcome' = "returned"
                        /\ exit' = "stationary"
                        /\ goodGermsList' = SelectGerms(weights', 1)
                        /\ moveKind' = "none"
                        /\ UNCHANGED iIter
    /\ UNCHANGED << elsewhere, heap, inputs, gatesetList, tested, twirledDerivDaggerDerivList,
                    scoreD, evals, prev >>

\* lines 771-786: the for loop ran maxIter times
HitMaxIterMulti ==
    /\ pc = "loop"
    /\ variant = "multi"
    /\ ~MoreIterations
    /\ pc' = "done"
    /\ outcome' = "returned"
    /\ exit' = "maxiter"
    /\ goodGermsList' = SelectGerms(weights, 1)
    /\ UNCHANGED << elsewhere, heap, inputs, gatesetList, tested, twirledDerivDaggerDerivList,
                    scoreD, evals, weights, score, L1, lessWeightOnly, iIter,
                    prev, trail, moveKind >>

(***************************************************************************)
(* The calls checked.                                                      *)
(***************************************************************************)
\* (fixedSlack, slackFrac): one of them given, both, neither, a negative one
\* lines 274-307: one call of test_germ_list_infl.  A name other than 'all'
\* and 'worst' defines no list_score, which line 305 then fails to find
TestGermListInfl ==
    /\ pc = "call"
    /\ variant = "infl"
    /\ LET c == StripCopy(models, 1)
       IN  /\ models' = c.models
           /\ gateset0' = c.id
           /\ jacobians' = << Jacobian(c.id, "test", 1) >>
    /\ outcome' = IF scoreFunc \notin {"all", "worst"} THEN "NameError"
                  ELSE IF test_germ_list_infl(gatesetList[1], germsToTest,
                                              scoreFunc)
                  THEN "True" ELSE "False"
    /\ pc' = "done"
    /\ UNCHANGED << inputs, gatesetList, tested, exit, goodGermsList, prev, trail,
                    moveKind, twirledDerivDaggerDerivList, scoreD, evals,
                    weights, score, L1, lessWeightOnly, iIter, elsewhere >>

(***************************************************************************)
(* test_germ_list_finitel                                                  *)
(***************************************************************************)
\* lines 203-208: dprods[i] has gate_dim**2 rows, so derivDaggerDeriv[i], seen
\* through its diagonal, has at most gate_dim**2 entries that are not zero;
\* at a finite L the gauge directions need not vanish
FiniteLContributions(d) ==
    { c \in [1..nParams -> EntryValues] :
          Cardinality({ p \in 1..nParams : c[p] # 0 }) <= d * d }

\* the largest eigenvalue is compared
bSuccess_Largest(ev, nGermsToTest, len) ==
    ev[Len(ev)] * TolUnit > tol * nGermsToTest * len * len

\* line 223: "bool(sortedEigenvals[nGaugeParams] > tol)", ev being the sorted
\* eigenvalues of the sum before the weights 1.0/nGermsToTest and the factor
\* 1.0/L**2 of line 219 are applied
bSuccess(ev, nGermsToTest, len) ==
    ev[nGaugeParams + 1] * TolUnit > tol * nGermsToTest * len * len

\* lines 197-225: one call of test_germ_list_finitel, the weights left at
\* their default
TestGermListFiniteL ==
    /\ pc = "call"
    /\ variant = "finitel"
    /\ LET c == StripCopy(models, 1)
       IN  /\ models' = c.models
           /\ gateset0' = c.id
           /\ jacobians' = << Jacobian(c.id, "finitel", 1) >>
    /\ LET combinedDDD == combinedTDDD(germsToTest, gatesetList[1])
       IN  outcome' = IF bSuccess(sortedEigenvals(combinedDDD),
                                  CountOnes(germsToTest), L)
                      THEN "True" ELSE "False"
    /\ pc' = "done"
    /\ UNCHANGED << inputs, gatesetList, tested, exit, goodGermsList, prev, trail,
                    moveKind, twirledDerivDaggerDerivList, scoreD, evals,
                    weights, score, L1, lessWeightOnly, iIter, elsewhere >>

(***************************************************************************)
(* _SuperOpForPerfectTwirl, in the eigenbasis of wrt (wrtEvecs the         *)
(* identity): every Proj_i and the superoperator are diagonal.             *)
(***************************************************************************)
\* line 66: the indices j whose entry of Proj_i is 1
Proj(i, ev, tolerance) ==
    { j \in 1..dim : Abs(ev[i] - ev[j]) <= tolerance }

\* entries of the superoperator are held in units of 1/SuperUnit
SuperUnit == Factorial(dim)

\* lines 64-69: the entry of SuperOp at row and column (a, b), the sum over i
\* of the entry of kron(A, A.T), which is 1/trace(Proj_i) when Proj_i holds
\* both a and b
SuperOpEntry(a, b, ev, tolerance) ==
    SeqSum([i \in 1..dim |->
               IF a \in Proj(i, ev, tolerance) /\ b \in Proj(i, ev, tolerance)
               THEN SuperUnit \div Cardinality(Proj(i, ev, tolerance))
               ELSE 0])

\* lines 51-71: one call of _SuperOpForPerfectTwirl
SuperOpForPerfectTwirl ==
    /\ pc = "call"
    /\ variant = "twirl"
    /\ SuperOp' = [a \in 1..dim |-> [b \in 1..dim |->
                       SuperOpEntry(a, b, wrtEvals, eps)]]
    /\ outcome' = "SuperOp"
    /\ pc' = "done"
    /\ UNCHANGED << inputs, gatesetList, tested, exit, goodGermsList, prev, trail,
                    moveKind, twirledDerivDaggerDerivList, scoreD, evals,
                    weights, score, L1, lessWeightOnly, iIter, heap,
                    germsToTest, L, gate_dim, wrtEvals, eps, filename, cache,
                    cacheFile, calls >>

(***************************************************************************)
(* loadDataset and loadMultiDataset                                        *)
(***************************************************************************)
\* lines 46-48 (100-102): the file loads as a saved object
LoadsDirectly == filename = "saved"

LoadsFromCache_NotOlder == cache /\ cacheFile \in {"same", "newer"}

\* lines 51-59 (104-112): the cache file is asked for, exists, is strictly
\* newer than the file ("<" of the modification times) and loads; "corrupt" is
\* a cache file that is newer and does not load
LoadsFromCache == cache /\ cacheFile = "newer"

\* lines 66-67 and 73-74 (119-120, 127-128): the text parser reads the file
Parses == filename = "text"

WritesCache_Never == FALSE

\* lines 69-70 (122-123): the cache file is written when the file was parsed
\* with cache set
WritesCache == ~LoadsDirectly /\ ~LoadsFromCache /\ Parses /\ cache

\* lines 69-70 (122-123): the cache file after the call; one written now is
\* not older than the file, and is as old when the clock has not ticked
CacheFileAfterLoad ==
    IF WritesCache THEN {"same", "newer"} ELSE {cacheFile}

\* lines 46-74 (100-128): where the object of the call comes from
Source ==
    IF LoadsDirectly THEN "file"
    ELSE IF LoadsFromCache THEN "cache"
    ELSE IF Parses THEN "parsed"
    ELSE "none"

\* the record of one call: the cache file it found, what it read, whether it
\* wrote the cache file, and what it gave back
Call(result) ==
    [before |-> cacheFile, source |-> Source, wrote |-> WritesCache,
     result |-> result]

\* what is left unchanged by a loader
LoaderFrame ==
    UNCHANGED << inputs, gatesetList, tested, exit, goodGermsList, prev, trail,
                 moveKind, twirledDerivDaggerDerivList, scoreD, evals, weights,
                 score, L1, lessWeightOnly, iIter, heap, germsToTest, L,
                 gate_dim, wrtEvals, eps, SuperOp, filename, cache >>

\* a caller may call a loader again with the same arguments
MayLoad == pc \in {"call", "done"} /\ Len(calls) < MaxLoads

\* lines 46-75: "return ds" at line 75 belongs to the except block, so a file
\* that loads directly leaves the function at its end, which returns None
LoadDataset ==
    /\ MayLoad
    /\ variant = "loadDataset"
    /\ outcome' = IF LoadsDirectly THEN "None"
                  ELSE IF LoadsFromCache THEN "DataSet"
                  ELSE IF Parses THEN "DataSet"
                  ELSE "raised"
    /\ cacheFile' \in CacheFileAfterLoad
    /\ calls' = Append(calls, Call(outcome'))
    /\ pc' = "done"
    /\ LoaderFrame

\* lines 100-129: "return mds" at line 129 ends the function on every path
LoadMultiDataset ==
    /\ MayLoad
    /\ variant = "loadMultiDataset"
    /\ outcome' = IF LoadsDirectly THEN "MultiDataSet"
                  ELSE IF LoadsFromCache THEN "MultiDataSet"
                  ELSE IF Parses THEN "MultiDataSet"
                  ELSE "raised"
    /\ cacheFile' \in CacheFileAfterLoad
    /\ calls' = Append(calls, Call(outcome'))
    /\ pc' = "done"
    /\ LoaderFrame

SlackSettings ==
    { <<1, 0>>, <<2, 0>>, <<0, 1>>, <<0 - 1, 0>>, <<0, 0 - 1>>, <<0, 0>>,
      <<1, 1>> }

SlackSettingsMulti == { <<1, 0>>, <<0, 1>>, <<0, 0>> }

\* the gate set handed to the robust optimizer, which scores randomized copies
BaseGateSet == [i \in 1..nGerms |-> [p \in 1..nParams |-> IF p > nGaugeParams THEN 1 ELSE 0]]

\* no test is called
NoTest == germsToTest = <<>> /\ L = 0 /\ gate_dim = 0

\* no twirl is called
NoTwirl == wrtEvals = <<>> /\ eps = 0 /\ SuperOp = <<>>

\* no loader is called
NoLoad == filename = "" /\ cache = FALSE /\ cacheFile = "" /\ calls = <<>>

\* before the call: nothing computed, the caller's objects alone
InitLocals ==
    /\ pc = "call"
    /\ outcome = "running"
    /\ tested = <<>>
    /\ exit = ""
    /\ twirledDerivDaggerDerivList = <<>>
    /\ scoreD = <<>>
    /\ evals = <<>>
    /\ weights = <<>>
    /\ score = 0
    /\ L1 = 0
    /\ lessWeightOnly = FALSE
    /\ iIter = 0
    /\ goodGermsList = <<>>
    /\ prev = [weights |-> <<>>, score |-> 0, L1 |-> 0, lessWeightOnly |-> FALSE]
    /\ moveKind = ""
    /\ trail = <<>>
    /\ models = [k \in 1..Len(gatesetList) |-> WithSPAM]
    /\ gateset0 = 0
    /\ jacobians = <<>>

\* no optimizer is called
NoSearch ==
    /\ initialWeights = None
    /\ maxIter = 0
    /\ fixedSlack = 0
    /\ slackFrac = 0
    /\ forceSingletons = FALSE
    /\ numCopies = None

InitCommon ==
    /\ initialWeights \in {None} \cup WeightVectors
    /\ maxIter \in 0..MaxIter
    /\ forceSingletons \in BOOLEAN
    /\ NoTest /\ NoTwirl /\ NoLoad
    /\ InitLocals

InitSingle ==
    /\ variant = "single"
    /\ gatesetList \in { <<g>> : g \in GateSets }
    /\ scoreFunc = "worst"
    /\ numCopies = None
    /\ \E setting \in SlackSettings :
           fixedSlack = setting[1] /\ slackFrac = setting[2]
    /\ InitCommon

InitMulti ==
    /\ variant = "multi"
    /\ gatesetList \in { <<BaseGateSet>>, <<BaseGateSet, BaseGateSet>> }
    /\ scoreFunc \in {"all", "worst", "best"}
    /\ numCopies \in { None, <<1>> }
    /\ \E setting \in SlackSettingsMulti :
           fixedSlack = setting[1] /\ slackFrac = setting[2]
    /\ InitCommon

InitInfl ==
    /\ variant = "infl"
    /\ gatesetList \in { <<g>> : g \in GateSets }
    /\ germsToTest \in { v \in WeightVectors : CountOnes(v) > 0 }
    /\ scoreFunc \in {"all", "worst", "best"}
    /\ L = 0 /\ gate_dim = 0
    /\ NoSearch /\ NoTwirl /\ NoLoad
    /\ InitLocals

\* the germs that are not tested have no Jacobian
InitFiniteL ==
    /\ variant = "finitel"
    /\ gate_dim \in GateDims
    /\ gatesetList \in { <<g>> : g \in [1..nGerms -> FiniteLContributions(gate_dim)] }
    /\ germsToTest \in { v \in WeightVectors : CountOnes(v) > 0 }
    /\ \A i \in 1..nGerms : \A p \in 1..nParams :
           germsToTest[i] = 0 => gatesetList[1][i][p] = 0
    /\ L \in Lengths
    /\ scoreFunc = "all"
    /\ NoSearch /\ NoTwirl /\ NoLoad
    /\ InitLocals

InitTwirl ==
    /\ variant = "twirl"
    /\ wrtEvals \in [1..dim -> Eigenvalues]
    /\ eps \in Tolerances
    /\ SuperOp = <<>>
    /\ gatesetList = <<>>
    /\ scoreFunc = "all"
    /\ NoSearch /\ NoTest /\ NoLoad
    /\ InitLocals

InitLoad ==
    /\ variant \in {"loadDataset", "loadMultiDataset"}
    /\ filename \in {"saved", "text", "unreadable"}
    /\ cache \in BOOLEAN
    /\ cacheFile \in {"absent", "older", "same", "newer", "corrupt"}
    /\ calls = <<>>
    /\ gatesetList = <<>>
    /\ scoreFunc = "all"
    /\ NoSearch /\ NoTest /\ NoTwirl
    /\ InitLocals

Init ==
    \/ InitSingle
    \/ InitMulti
    \/ InitInfl
    \/ InitFiniteL
    \/ InitTwirl
    \/ InitLoad

Next ==
    \/ Setup
    \/ NormalScan
    \/ Relax
    \/ HitMaxIter
    \/ SetupMulti
    \/ NormalScanMulti
    \/ RelaxMulti
    \/ HitMaxIterMulti
    \/ TestGermListInfl
    \/ TestGermListFiniteL
    \/ SuperOpForPerfectTwirl
    \/ LoadDataset
    \/ LoadMultiDataset

Spec == Init /\ [][Next]_vars

(***************************************************************************)
(* Properties.                                                             *)
(***************************************************************************)
\* the germs of a returned list
Returned == { goodGermsList[k] : k \in 1..Len(goodGermsList) }

\* the score of the vector wts on the gate sets scored: compute_score(wts) of
\* the single optimizer, the maximum over the gate sets of the robust one
ScoreOf(wts) ==
    IF variant = "single"
    THEN compute_score(wts, twirledDerivDaggerDerivList[1])
    ELSE SeqMax([gateset_num \in 1..Len(twirledDerivDaggerDerivList) |->
                    compute_score_multi(wts, gateset_num,
                                        twirledDerivDaggerDerivList)])

\* the same score as scoreD records it
CachedScore(wts) ==
    IF variant = "single" THEN scoreD[wts]
    ELSE SeqMax([gateset_num \in 1..Len(twirledDerivDaggerDerivList) |->
                    scoreD[<<gateset_num, wts>>]])

\* no single included germ of wts can be excluded without raising the score
\* s of wts by the slack or more
LocallyOptimal(wts) ==
    LET s == ScoreOf(wts)
    IN  \A i \in 1..nGerms :
            wts[i] = 1 => ScoreOf(get_neighbors(wts, i)) >= FAdd(s, SlackOf(s))

\* C1: with forceSingletons, the list optimize_integer_germs_slack returns
\* holds every elementary gate (the first numGates germs of germsList),
\* whatever initialWeights, the slack, maxIter and the scores are.
C1_ReturnedListHoldsEveryGate ==
    (variant = "single" /\ outcome = "returned" /\ forceSingletons)
        => \A i \in 1..numGates : germsList[i] \in Returned

\* C2 as claimed: however optimize_integer_germs_slack returns, also after
\* maxIter iterations, the returned vector is locally optimal.
C2_LocallyOptimalOnEveryReturn ==
    (variant = "single" /\ outcome = "returned") => LocallyOptimal(weights)

\* C2: when optimize_integer_germs_slack returns because it found a
\* stationary point, every vector obtained by excluding one included germ of
\* the returned vector has a score of at least s + sl, s being the score of
\* the returned vector and sl the slack.
C2_LocallyOptimalAtStationaryPoint ==
    (variant = "single" /\ outcome = "returned" /\ exit = "stationary")
        => LocallyOptimal(weights)

\* a stationary point reached after a move, with a germ that could be excluded
C2_Witness ==
    /\ variant = "single" /\ outcome = "returned" /\ exit = "stationary"
    /\ iIter >= 1
    /\ CountOnes(weights) >= 2
    /\ ScoreOf(weights) < Inf

\* C3 as claimed: every list either optimizer returns passes
\* test_germ_list_infl on every gate set scored.
C3_ReturnedSetPassesTest ==
    outcome = "returned"
        => \A m \in 1..Len(gatesetList) :
               test_germ_list_infl(gatesetList[m], weights, scoreFunc)

\* C3: a list the robust optimizer returns that still holds every candidate
\* germ passes test_germ_list_infl, with the threshold and the score mode of
\* the call, on every gate set scored.
C3_ReturnedFullSetPassesTest ==
    (variant = "multi" /\ outcome = "returned" /\ weights = AllOnes)
        => \A m \in 1..Len(gatesetList) :
               test_germ_list_infl(gatesetList[m], weights, scoreFunc)

\* the robust optimizer returns the full list for two gate sets after a
\* search that ran
C3_Witness ==
    /\ variant = "multi" /\ outcome = "returned" /\ weights = AllOnes
    /\ Len(gatesetList) = 2
    /\ maxIter >= 1

\* C4: when no initial vector is given, no move of either optimizer adds a
\* germ: the number of germs held never grows once the search has started.
C4_NoMoveAddsAGerm ==
    [][(initialWeights = None /\ pc \in {"loop", "relax"})
           => CountOnes(weights') <= CountOnes(weights)]_vars

\* the i-th neighbor of the vector held when the iteration begun last started
PrevNeighbor(i) == get_neighbors(prev.weights, i)

\* the acceptance test of the normal scan, against the score and the number of
\* germs held when the iteration started
Qualifies(i) ==
    /\ CachedScore(PrevNeighbor(i)) <= prev.score
    /\ (CountOnes(PrevNeighbor(i)) < prev.L1 \/ prev.lessWeightOnly = FALSE)

FirstQualifying ==
    CHOOSE i \in 1..nGerms : Qualifies(i) /\ \A j \in 1..(i - 1) : ~Qualifies(j)

\* the last of the neighbors whose score is the lowest of the scores not above
\* the score held when the iteration started
LastBest ==
    CHOOSE i \in 1..nGerms :
        /\ CachedScore(PrevNeighbor(i)) <= prev.score
        /\ \A j \in 1..nGerms :
               CachedScore(PrevNeighbor(j)) >= CachedScore(PrevNeighbor(i))
        /\ \A j \in (i + 1)..nGerms :
               CachedScore(PrevNeighbor(j)) > CachedScore(PrevNeighbor(i))

\* C5 as claimed: an iteration whose normal scan moved ends on the first
\* neighbor, in enumeration order, that passed the acceptance test.
C5_MovesToFirstQualifying ==
    moveKind = "normal" => weights = PrevNeighbor(FirstQualifying)

\* C5: the normal scan looks at every neighbor, in enumeration order, and an
\* iteration whose normal scan moved ends on the first qualifying neighbor
\* when shrink-only mode is active, and otherwise on the last of the
\* neighbors that have the lowest score among those not above the score held.
C5_NormalScanResult ==
    moveKind = "normal"
        => weights = IF prev.lessWeightOnly THEN PrevNeighbor(FirstQualifying)
                     ELSE PrevNeighbor(LastBest)

\* a neighbor enumerated after the first qualifying one became the vector held
C5_Witness ==
    /\ moveKind = "normal"
    /\ prev.lessWeightOnly = FALSE
    /\ weights # PrevNeighbor(FirstQualifying)

\* the test of the relaxed rescan: strictly fewer germs and a score within
\* the slack of the score held
RelaxQualifies(i) ==
    /\ CountOnes(PrevNeighbor(i)) < prev.L1
    /\ CachedScore(PrevNeighbor(i)) < FAdd(prev.score, SlackOf(prev.score))

\* C6: the relaxed rescan moves to the qualifying neighbor with the lowest
\* score.
C6_RescanMovesToBest ==
    moveKind = "relaxed"
        => \A i \in 1..nGerms :
               RelaxQualifies(i)
                   => CachedScore(weights) <= CachedScore(PrevNeighbor(i))

\* exactly one of fixedSlack and slackFrac is given, and it is positive
ValidSlack ==
    \/ (fixedSlack > 0 /\ slackFrac = 0)
    \/ (fixedSlack = 0 /\ slackFrac > 0)

\* goodGermsList is a sublist of germsList: the germs the weights mark
IsSublist == goodGermsList = SelectGerms(weights, 1)

\* at most maxIter iterations, no exception, and at the cap the vector held
\* after the last iteration
RunsToReturn ==
    /\ iIter <= maxIter
    /\ pc = "done" => (outcome = "returned" /\ IsSublist)
    /\ exit = "maxiter" => iIter = maxIter
    /\ (exit = "maxiter" /\ maxIter = 0) => weights = StartWeights

\* C7 as claimed: for every input optimize_integer_germs_slack runs at most
\* maxIter iterations and returns a sublist of germsList without raising.
C7_ReturnsForEveryInput ==
    variant = "single" => RunsToReturn

\* C7: for every input that gives exactly one of fixedSlack and slackFrac, a
\* positive one, optimize_integer_germs_slack runs at most maxIter iterations
\* and returns a sublist of germsList without raising; at the iteration cap
\* it returns the vector held after the last iteration, the initial vector
\* when maxIter = 0.
C7_ReturnsForValidSlack ==
    (variant = "single" /\ ValidSlack) => RunsToReturn

\* the cap is reached after moves
C7_Witness ==
    /\ variant = "single" /\ ValidSlack
    /\ exit = "maxiter" /\ maxIter >= 1
    /\ weights # StartWeights

\* C8: the search stops before maxIter iterations were completed exactly in
\* the first iteration in which neither the normal scan nor the relaxed
\* rescan accepts a neighbor, and then returns the vector held when that
\* iteration started.
C8_StopsAtFirstIterationWithoutMove ==
    /\ (moveKind = "none") <=> (exit = "stationary")
    /\ exit = "stationary"
           => /\ pc = "done" /\ outcome = "returned"
              /\ iIter < maxIter
              /\ weights = prev.weights
              /\ goodGermsList = SelectGerms(prev.weights, 1)
    /\ exit = "maxiter" => iIter = maxIter
    /\ (outcome = "returned" /\ iIter < maxIter) => exit = "stationary"
    /\ moveKind \in {"normal", "relaxed"} => weights # prev.weights

\* a stationary point after an iteration that moved
C8_Witness ==
    /\ exit = "stationary"
    /\ iIter >= 1
    /\ weights # StartWeights

\* a test of the full germ list failed
FailedTest == \E k \in 1..Len(tested) : tested[k] = FALSE

\* C9: when the full germ list fails test_germ_list_infl on a gate set, the
\* robust optimizer returns None without raising, having run no iteration,
\* built no contribution and written no score.
C9_FailedPreconditionReturnsNone ==
    /\ FailedTest
           => /\ variant = "multi"
              /\ outcome = "None" /\ pc = "done"
              /\ iIter = 0 /\ moveKind = "" /\ exit = ""
              /\ twirledDerivDaggerDerivList = <<>>
              /\ scoreD = <<>> /\ evals = <<>>
              /\ goodGermsList = <<>>
    /\ (variant = "multi" /\ outcome = "None") => FailedTest

\* the second of two gate sets fails the test, the slack arguments being bad
C9_Witness ==
    /\ outcome = "None"
    /\ Len(tested) = 2
    /\ BadSlackArgs

\* C10: in the robust optimizer the score held is the maximum over the gate
\* sets of the score of the vector held, scoreD is keyed by (gate set index,
\* weight vector) for every gate set, and each entry is the score of its
\* vector on its gate set.
C10_WorstCaseScoreAndKeys ==
    variant = "multi" =>
        /\ \A k \in DOMAIN scoreD :
               /\ k[1] \in 1..Len(gatesetList)
               /\ k[2] \in WeightVectors
               /\ \A m \in 1..Len(gatesetList) : <<m, k[2]>> \in DOMAIN scoreD
               /\ scoreD[k] = compute_score_multi(k[2], k[1],
                                                  twirledDerivDaggerDerivList)
        /\ pc \in {"loop", "relax"}
               => score = SeqMax([m \in 1..Len(gatesetList) |->
                                     scoreD[<<m, weights>>]])
        /\ moveKind \in {"normal", "relaxed"}
               => score = SeqMax([m \in 1..Len(gatesetList) |->
                                     scoreD[<<m, weights>>]])

\* a relaxed move to a vector that two gate sets score differently
C10_Witness ==
    /\ variant = "multi"
    /\ Len(gatesetList) = 2
    /\ moveKind = "relaxed"
    /\ scoreD[<<1, weights>>] # scoreD[<<2, weights>>]

\* C11: compute_score runs at most once for every key of scoreD in one run
\* of either optimizer, and only the keys it ran for are held.
C11_ScoredOncePerKey ==
    /\ DOMAIN evals = DOMAIN scoreD
    /\ \A k \in DOMAIN evals : evals[k] = 1

\* a second iteration scanned the neighbors of a vector moved to, the vector
\* left being one of them
C11_Witness ==
    /\ iIter >= 2
    /\ moveKind \in {"normal", "relaxed"}
    /\ Cardinality(DOMAIN scoreD) > (nGerms + 1) * Len(twirledDerivDaggerDerivList)

\* the call has no other argument error: the robust optimizer got a valid
\* score-mode name and a copy count that fits its gate set list
OnlySlackAtFault ==
    /\ BadSlackArgs
    /\ variant = "multi" =>
           /\ ArgumentError = ""
           /\ (Len(gatesetList) = 1 => numCopies # None)

\* C12: a call of either optimizer that gives both or neither of fixedSlack and
\* slackFrac ends with the configuration error, and no completeness test was
\* run on any gate set before it.
C12_SlackErrorBeforeAnyComputation ==
    (pc = "done" /\ variant \in {"single", "multi"} /\ OnlySlackAtFault) =>
        (outcome = "ValueError" /\ tested = <<>>)

\* C13: a call of test_germ_list_infl or of the robust optimizer with a
\* score-mode name other than 'all' and 'worst' ends with the configuration
\* error, and no Jacobian was computed before it.
C13_UnknownScoreModeRaisesFirst ==
    (pc = "done" /\ variant \in {"multi", "infl"}
                 /\ scoreFunc \notin {"all", "worst"}) =>
        (outcome = "ValueError" /\ jacobians = <<>>)

\* an optimizer has set up its search
Searching ==
    /\ variant \in {"single", "multi"}
    /\ pc \in {"loop", "relax"} \/ outcome = "returned"

\* the calls of bulk_twirled_deriv made for gate set number m
JacobiansFor(m, uses) ==
    { k \in DOMAIN jacobians : jacobians[k].num = m /\ jacobians[k].use \in uses }

\* C14 as stated: once the search is set up, bulk_twirled_deriv has run
\* exactly once for every gate set.
C14_JacobianBuiltOncePerModel ==
    Searching =>
        \A m \in 1..Len(twirledDerivDaggerDerivList) :
            Cardinality(JacobiansFor(m, {"test", "search"})) = 1

\* C14: the contributions the search scores with are built exactly once for
\* every gate set before the first iteration, and no later step builds a
\* Jacobian or changes a contribution.
C14_SearchJacobiansBuiltOnce ==
    /\ [](Searching =>
            /\ Len(twirledDerivDaggerDerivList) = Len(gatesetList)
            /\ \A m \in 1..Len(gatesetList) :
                   /\ Cardinality(JacobiansFor(m, {"search"})) = 1
                   /\ twirledDerivDaggerDerivList[m] = gatesetList[m])
    /\ [][pc # "call" =>
            /\ jacobians' = jacobians
            /\ twirledDerivDaggerDerivList' = twirledDerivDaggerDerivList]_vars

\* the robust optimizer moved in a second iteration on two gate sets, each
\* tested before the search
C14_Witness ==
    /\ variant = "multi"
    /\ Len(twirledDerivDaggerDerivList) = 2
    /\ iIter >= 2
    /\ moveKind = "normal"
    /\ Len(jacobians) = 4

\* C15: no step of a test or of an optimizer changes an object that was
\* there before the step, the initial weight vector or the germ list tested;
\* the caller's model holds its preps and effects throughout.
C15_CallerObjectsUntouched ==
    /\ [][/\ \A id \in DOMAIN models : models'[id] = models[id]
          /\ initialWeights' = initialWeights
          /\ germsToTest' = germsToTest]_vars
    /\ [](Len(models) > 0 => models[1] = WithSPAM)

\* an optimizer returned, or a test answered, after SPAM was removed from a
\* private copy
C15_Witness ==
    /\ pc = "done"
    /\ outcome \in {"returned", "True"}
    /\ gateset0 > 1
    /\ models[gateset0] = NoSPAM
    /\ models[1] = WithSPAM

\* C16: the Jacobians an optimizer scores with were all computed on a gate
\* set whose preps and effects had been removed.
C16_SearchJacobiansOnStrippedModel ==
    Searching =>
        \A k \in DOMAIN jacobians :
            jacobians[k].use = "search" =>
                models[jacobians[k].gateset] = NoSPAM

\* the weight vector and the gate set number of a key of scoreD
KeyWeights(k) == IF variant = "multi" THEN k[2] ELSE k
KeyModel(k) == IF variant = "multi" THEN k[1] ELSE 1

\* key k2 is key k1 with one more germ included, for the same gate set
AddsOneGerm(k1, k2) ==
    /\ KeyModel(k1) = KeyModel(k2)
    /\ \E i \in 1..nGerms :
           /\ KeyWeights(k1)[i] = 0
           /\ KeyWeights(k2) = [KeyWeights(k1) EXCEPT ![i] = 1]

\* C17: of two vectors scored, the one with one more germ never
\* has the higher score.
C17_ScoreNeverRisesWithAGerm ==
    \A k1 \in DOMAIN scoreD, k2 \in DOMAIN scoreD :
        AddsOneGerm(k1, k2) => scoreD[k2] <= scoreD[k1]

\* C18: after _SuperOpForPerfectTwirl the index sets of the projectors are
\* pairwise equal or disjoint, and the superoperator weighs a pair of indices
\* by exactly 1 when one projector holds both and by 0 otherwise.
C18_GroupsPartitionAndCountOnce ==
    (variant = "twirl" /\ pc = "done") =>
        /\ \A i \in 1..dim, j \in 1..dim :
               \/ Proj(i, wrtEvals, eps) = Proj(j, wrtEvals, eps)
               \/ Proj(i, wrtEvals, eps) \cap Proj(j, wrtEvals, eps) = {}
        /\ \A a \in 1..dim, b \in 1..dim :
               SuperOp[a][b] = IF b \in Proj(a, wrtEvals, eps)
                               THEN SuperUnit ELSE 0

\* a call of test_germ_list_finitel has answered
FiniteLDone == variant = "finitel" /\ pc = "done"

\* C19 as stated: test_germ_list_finitel with L = 1 and fewer germs than
\* non-gauge parameters answers False, whatever the gate dimension.
C19_FewerGermsThanParametersFails ==
    (FiniteLDone /\ L = 1
                 /\ CountOnes(germsToTest) < nParams - nGaugeParams) =>
        outcome = "False"

\* C19: test_germ_list_finitel answers False whenever the number of germs
\* times gate_dim**2, the number of rows the Jacobians have together, is less
\* than the number of non-gauge parameters.
C19_FewerRowsThanParametersFails ==
    (FiniteLDone /\ CountOnes(germsToTest) * gate_dim * gate_dim
                        < nParams - nGaugeParams) =>
        outcome = "False"

\* one germ of a one-dimensional gate set, whose Jacobian has a single row
\* that is not zero, was tested
C19_Witness ==
    /\ FiniteLDone
    /\ CountOnes(germsToTest) * gate_dim * gate_dim < nParams - nGaugeParams
    /\ \E i \in 1..nGerms :
           /\ germsToTest[i] = 1
           /\ \E p \in 1..nParams : gatesetList[1][i][p] # 0
    /\ outcome = "False"

\* C20: a call of loadDataset that raises nothing returns a DataSet, as a
\* call of loadMultiDataset that raises nothing returns a MultiDataSet.
C20_LoadReturnsTheDataSet ==
    (pc = "done" /\ outcome # "raised") =>
        /\ variant = "loadDataset" => outcome = "DataSet"
        /\ variant = "loadMultiDataset" => outcome = "MultiDataSet"

(***************************************************************************)
(* The cache file of the loaders.                                          *)
(***************************************************************************)
\* the calls made with cache set that raised nothing
CachedCalls == { k \in 1..Len(calls) : cache /\ calls[k].result # "raised" }

Flip(v, i) == [j \in 1..nGerms |-> IF j = i THEN 1 - v[j] ELSE v[j]]

\* the weight vectors among the keys of scoreD
WeightKeys ==
    IF variant = "single" THEN DOMAIN scoreD
    ELSE { k[2] : k \in DOMAIN scoreD }

\* a scan was made from prev.weights
Scanned == variant \in {"single", "multi"} /\ moveKind # ""

\* one scan has been made and no second one
FirstScanOnly == iIter = 0 \/ (iIter = 1 /\ pc = "loop")

\* C22: a scan of the neighbors of a weight vector of length n scores the n
\* vectors that differ from it in one coordinate each and no other vector,
\* leaves the vector unchanged when no neighbor is accepted, and ends on a
\* vector that differs from it in one coordinate when neighbors are accepted
\* during the scan.
C22_NeighborsAreTheSingleFlips ==
    Scanned =>
        /\ \A i \in 1..nGerms : Flip(prev.weights, i) \in WeightKeys
        /\ FirstScanOnly
              => WeightKeys = {prev.weights}
                              \cup { Flip(prev.weights, i) : i \in 1..nGerms }
        /\ pc = "relax" => weights = prev.weights
        /\ moveKind \in {"normal", "relaxed"}
              => \E i \in 1..nGerms : weights = Flip(prev.weights, i)

\* a scan accepted its first neighbor and, later in the same scan, its third
C22_Witness ==
    /\ Scanned /\ moveKind = "normal"
    /\ prev.lessWeightOnly = FALSE
    /\ CachedScore(Flip(prev.weights, 1)) <= prev.score
    /\ weights = Flip(prev.weights, 3)

(***************************************************************************)
(* The relaxed rescan.                                                     *)
(***************************************************************************)
\* the test of the relaxed rescan as stated: strictly fewer germs and a
\* score not above the score held plus the slack
WithinSlack(i) ==
    /\ CountOnes(Flip(prev.weights, i)) < prev.L1
    /\ CachedScore(Flip(prev.weights, i))
           <= FAdd(prev.score, SlackOf(prev.score))

\* C23: a neighbor qualifies in the relaxed rescan exactly when it has
\* strictly fewer germs than the vector held and its score is not above the
\* score held plus the slack, a score equal to that sum included: the rescan
\* moves when such a neighbor exists, and moves to such a neighbor only.
C23_RescanAcceptsUpToSlackInclusive ==
    /\ (Scanned /\ exit = "stationary")
           => \A i \in 1..nGerms : ~WithinSlack(i)
    /\ (Scanned /\ moveKind = "relaxed")
           => \E i \in 1..nGerms :
                  WithinSlack(i) /\ weights = Flip(prev.weights, i)

(***************************************************************************)
(* The input forms of the robust optimizer.                                *)
(***************************************************************************)
\* the robust optimizer has left its argument checks and randomization
MultiStarted == variant = "multi" /\ pc # "call"

\* C24: with a known score function, the robust optimizer raises at its
\* arguments only for several models together with a copy count (ValueError);
\* a single model with or without a copy count and several models without one
\* reach the precondition test.
C24_OnlyListWithCopiesRejected ==
    (MultiStarted /\ scoreFunc \in {"all", "worst"}) =>
        IF Len(gatesetList) > 1 /\ numCopies # None
        THEN outcome = "ValueError" /\ tested = <<>>
        ELSE outcome # "TypeError" /\ Len(tested) >= 1

(***************************************************************************)
(* What the loop holds.                                                    *)
(***************************************************************************)
\* an iteration of one of the optimizers is about to start
IterationStart == variant \in {"single", "multi"} /\ pc = "loop"

\* C25: at the start of every iteration of either optimizer the score held
\* is the score scoreD records for the vector held (the largest over the
\* gate sets in the robust optimizer), without the slack, and L1 is the
\* number of ones of the vector held.
C25_HeldScoreIsCachedScore ==
    IterationStart =>
        /\ score = CachedScore(weights)
        /\ L1 = CountOnes(weights)

\* an iteration starts after a relaxed move, whose rescan compared against
\* the score raised by the slack
C25_Witness ==
    /\ IterationStart
    /\ moveKind = "relaxed"
    /\ ValidSlack
    /\ score > prev.score
    /\ score = CachedScore(weights)

(***************************************************************************)
(* The moves of a search.                                                  *)
(***************************************************************************)
\* what the search held when its k-th move was complete
After(k) == IF k < Len(trail) THEN trail[k + 1].start ELSE Held

\* the moves made in shrink-only mode: every relaxed move, which sets the
\* mode before it rescans, and every normal move of an iteration that started
\* in the mode
ShrinkMoves ==
    { k \in 1..Len(trail) :
          trail[k].kind = "relaxed" \/ trail[k].start.lessWeightOnly }

\* the first move made in shrink-only mode
FirstShrinkMove == CHOOSE e \in ShrinkMoves : \A k \in ShrinkMoves : e <= k

\* C26: shrink-only mode, once active, stays active; every move made in it,
\* normal or relaxed, ends on a vector with exactly one germ fewer; so the
\* iterations that move, counted from the first one in the mode, are as many
\* as the germs dropped since, and the search stops at most one iteration
\* after the last germ is dropped, whatever maxIter is.
C26_ShrinkOnlyStaysAndDropsOneGerm ==
    variant \in {"single", "multi"} =>
        /\ \A k \in ShrinkMoves :
               /\ After(k).lessWeightOnly
               /\ After(k).L1 = trail[k].start.L1 - 1
               /\ CountOnes(After(k).weights)
                      = CountOnes(trail[k].start.weights) - 1
               /\ \A j \in k..Len(trail) : j \in ShrinkMoves
        /\ ShrinkMoves # {} =>
               /\ (Len(trail) - FirstShrinkMove + 1) + L1
                      = trail[FirstShrinkMove].start.L1
               /\ Len(trail) - FirstShrinkMove + 1
                      <= trail[FirstShrinkMove].start.L1
        /\ L1 >= 0

\* the mode was entered by the relaxed move of the first iteration, which
\* dropped a germ, and the search stopped in the next iteration, before
\* maxIter was reached
C26_Witness ==
    /\ variant \in {"single", "multi"}
    /\ Len(trail) = 1
    /\ trail[1].kind = "relaxed" /\ ~trail[1].start.lessWeightOnly
    /\ lessWeightOnly
    /\ L1 = trail[1].start.L1 - 1
    /\ exit = "stationary" /\ iIter < maxIter

\* the vector held when iteration k started, for the iterations that moved,
\* and the vector held after the last of them
Occupied(k) == After(k - 1).weights

\* C27: a search never holds the same weight vector at the start of two
\* iterations; the vector held after the last move counts as the start of
\* the iteration that follows it.
C27_NoVectorHeldTwice ==
    variant \in {"single", "multi"} =>
        \A j \in 1..(Len(trail) + 1) : \A k \in 1..(Len(trail) + 1) :
            j < k => Occupied(j) # Occupied(k)

(***************************************************************************)
(* The slack of a relaxation.                                              *)
(***************************************************************************)
\* a relaxation ran to its end: it moved, or found the stationary point
Relaxed == moveKind \in {"relaxed", "none"}

RelaxedMoves == { k \in 1..Len(trail) : trail[k].kind = "relaxed" }

\* the score of the vector the run started from
InitialScore ==
    IF trail = <<>> THEN CachedScore(weights) ELSE trail[1].start.score

\* every relaxed move goes to a vector with exactly one germ fewer whose
\* score s' lies strictly between the score s held before the relaxation
\* and s plus the slack
RelaxedMovesWithinSlack ==
    \A k \in RelaxedMoves :
        LET s == trail[k].start.score
            t == CachedScore(After(k).weights)
        IN  /\ CountOnes(After(k).weights)
                   = CountOnes(trail[k].start.weights) - 1
            /\ s < t
            /\ t < FAdd(s, SlackOf(s))

\* initial score + (number of relaxed moves) * fixedSlack
SlackBudget == FAdd(InitialScore, Cardinality(RelaxedMoves) * fixedSlack)

\* C29 as stated: a relaxed move drops one germ and ends on a score s' with
\* s < s' < s + slack, and with fixedSlack the score of the returned vector
\* is below the score of the initial vector plus fixedSlack times the number
\* of relaxed moves.
C29_ReturnedScoreBelowSlackBudget ==
    (variant \in {"single", "multi"} /\ outcome = "returned") =>
        /\ RelaxedMovesWithinSlack
        /\ fixedSlack > 0 => CachedScore(weights) < SlackBudget

\* C29: a relaxed move drops one germ and ends on a score s' with
\* s < s' < s + slack; with fixedSlack the score of the returned vector is at
\* most the score of the initial vector plus fixedSlack times the number of
\* relaxed moves, and below it when a relaxed move was made.
C29_ReturnedScoreWithinSlackBudget ==
    (variant \in {"single", "multi"} /\ outcome = "returned") =>
        /\ RelaxedMovesWithinSlack
        /\ fixedSlack > 0 =>
               /\ CachedScore(weights) <= SlackBudget
               /\ RelaxedMoves # {} => CachedScore(weights) < SlackBudget

\* a run with fixedSlack returned after a relaxed move that raised the score
C29_Witness ==
    /\ variant \in {"single", "multi"} /\ outcome = "returned"
    /\ fixedSlack > 0
    /\ RelaxedMoves # {}
    /\ CachedScore(weights) > InitialScore

(***************************************************************************)
(* A second call of a loader.                                              *)
(***************************************************************************)
\* the calls that follow a call which parsed the text file and wrote the
\* cache file
CallsAfterWrite ==
    { k \in 2..Len(calls) :
          calls[k - 1].source = "parsed" /\ calls[k - 1].wrote }

\* C30 as stated: after a call with cache set has parsed a text file and
\* written its cache file, the next call with the same arguments on the
\* unchanged file returns the cached object without parsing and without
\* writing the cache file, whatever the modification times.
C30_SecondCallReadsCache ==
    \A k \in CallsAfterWrite :
        calls[k].source = "cache" /\ ~calls[k].wrote

\* C30: after a call with cache set has parsed a text file and written its
\* cache file, the next call with the same arguments on the unchanged file
\* returns the cached object without parsing and without writing when the
\* cache file's modification time is later than that of the text file; when
\* the two times are equal it parses the text file and writes the cache file
\* again.
C30_SecondCallReadsStrictlyNewerCache ==
    \A k \in CallsAfterWrite :
        /\ calls[k].before \in {"same", "newer"}
        /\ calls[k].before = "newer"
               => /\ calls[k].source = "cache" /\ ~calls[k].wrote
                  /\ calls[k].result = calls[k - 1].result
        /\ calls[k].before = "same"
               => calls[k].source = "parsed" /\ calls[k].wrote

\* the second call finds the cache file the first call wrote, newer than the
\* text file, and returns the cached object
C30_Witness ==
    /\ Len(calls) = 2
    /\ calls[1].source = "parsed" /\ calls[1].wrote
    /\ calls[2].before = "newer"
    /\ calls[2].source = "cache" /\ ~calls[2].wrote

=============================================================================
